---- MODULE Spec2Model ----
(***************************************************************************)
(* Model of the download-mode collection loop of AdobeStockScraper        *)
(* (src/adobe_stock_scraper.py): the constructor, load_existing_video_ids, *)
(* search_videos, should_filter_video, download_video and                  *)
(* scrape_and_download, over a query directory that persists across runs.  *)
(*                                                                         *)
(* Video ids are the digit strings of eight or more digits that the page   *)
(* extractors produce (src/adobe_stock_scraper.py:1291, 1593-1601); they   *)
(* are modelled as the numbers 1..NumIds, and 0 is a blank id.  A title    *)
(* and a duration are attached to every id by TitleOf and DurationOf.      *)
(* Titles hold no digits, so a file stem is a pair <<title, suffix>>:      *)
(* suffix 0 is the stem "Title", suffix i is the stem "Title_i".           *)
(* Numbers with a fractional part in the code (the search multipliers)     *)
(* are kept in thousandths.                                                *)
(***************************************************************************)
EXTENDS Integers, Sequences, FiniteSets, TLC

\* ---------------------------------------------------------------- bounds
NumIds == 3
MaxPageLen == 2
MaxPages == 1
MaxCount == 3
MaxRuns == 3
MaxIgnoreSize == 800
MaxSample == 3
MaxJsonIds == 2
MaxModeRuns == 1
MaxLimit == 2
MaxCalls == 2
MaxIdLen == 2
MaxIdsPerCall == 2
MaxVideos == 3
MaxTopK == 4

\* ------------------------------------------------------ program constants
base_max_attempts == 20
base_videos_per_attempt_multiplier == 3
base_max_pages == 10
base_consecutive_empty_limit == 3
json_base_max_attempts == 5
base_multiplier == 2

None == 0
Ids == 1..NumIds
PageIds == 0..NumIds

\* ------------------------------------------------------------ sequences
Range(s) == {s[i] : i \in 1..Len(s)}

NoRepeats(s) == \A i, j \in 1..Len(s) : s[i] = s[j] => i = j

RECURSIVE IsSubseq(_, _)
IsSubseq(s, t) ==
    IF s = <<>> THEN TRUE
    ELSE IF t = <<>> THEN FALSE
    ELSE IF Head(s) = Head(t) THEN IsSubseq(Tail(s), Tail(t))
    ELSE IsSubseq(s, Tail(t))

RECURSIVE Flatten(_)
Flatten(ss) == IF ss = <<>> THEN <<>> ELSE Head(ss) \o Flatten(Tail(ss))

SeqsUpTo(S, n) == UNION {[1..k -> S] : k \in 0..n}

Max(a, b) == IF a >= b THEN a ELSE b
Min(a, b) == IF a <= b THEN a ELSE b

\* ------------------------------------------------------------- the site
\* Two videos can carry the same title: ids 1 and 2 share title 1, ids 3
\* and 4 share title 2, and so on.
TitleOf(id) == (id + 1) \div 2

\* Search results rarely carry a duration; here only id 3 does (40 s).
DurationOf(id) == IF id = 3 THEN 40 ELSE None

Video(id) == [id |-> id, title |-> TitleOf(id), duration_seconds |-> DurationOf(id)]

Titles == {TitleOf(i) : i \in Ids}

\* The pages one search_videos call can be served: up to MaxPages pages of
\* up to MaxPageLen entries; every further page comes back empty.
Pages == SeqsUpTo(PageIds, MaxPageLen)
PageSeqs == SeqsUpTo(Pages, MaxPages)

\* The ignore lists the operator may have saved for the query: none, or
\* up to MaxIgnored ids from id 2 on (id 1 is never ignored).
MaxIgnored == 1
IgnoreLists == {{}} \cup {2..k : k \in 2..(MaxIgnored + 1)}

\* Title patterns are matched by "pattern in title"; titles and patterns are
\* atomic here, so a pattern is contained in exactly the title it names.
ExcludeChoices == {{}, {TitleOf(1)}}
MaxDurationChoices == {None, 30}
MinDurationChoices == {None}

\* ---------------------------------------------------------- the budget
\* len(self.current_ignored_video_ids) if self.use_ignore_list else 0
ignore_list_size_of(use, ignored) == IF use THEN Cardinality(ignored) ELSE 0

\* search_multiplier of scrape_and_download in thousandths:
\* max(1.5, 1 + min(n / 1000, 0.7) * 2)
search_multiplier(n) == Max(1500, 1000 + (Min(n, 700) * 2))

\* The budget without the scaling by the ignore list.
max_search_attempts_of_unscaled(n) == base_max_attempts

\* int(base_max_attempts * search_multiplier), or the base for an empty list
max_search_attempts_of(n) ==
    IF n > 0 THEN (base_max_attempts * search_multiplier(n)) \div 1000
    ELSE base_max_attempts

\* videos_per_attempt_multiplier in thousandths
videos_per_attempt_multiplier_of(n) ==
    IF n > 0
    THEN Max(base_videos_per_attempt_multiplier * 1000,
             base_videos_per_attempt_multiplier * search_multiplier(n))
    ELSE base_videos_per_attempt_multiplier * 1000

\* search_multiplier of search_videos in thousandths:
\* max(1.5, 1 + min(n / 1000, 0.5) * 3)
page_search_multiplier(n) == Max(1500, 1000 + (Min(n, 500) * 3))

max_pages_of(n) ==
    IF n > 0 THEN (base_max_pages * page_search_multiplier(n)) \div 1000
    ELSE base_max_pages

consecutive_empty_limit_of(n) ==
    IF n > 0 THEN (base_consecutive_empty_limit * page_search_multiplier(n)) \div 1000
    ELSE base_consecutive_empty_limit

\* ------------------------------------------------- should_filter_video
should_filter_video(video, patterns, max_d, min_d) ==
    IF \E p \in patterns : p = video.title THEN TRUE
    ELSE IF (max_d # None \/ min_d # None) /\ video.duration_seconds = None THEN FALSE
    ELSE IF video.duration_seconds # None /\ max_d # None
            /\ video.duration_seconds > max_d THEN TRUE
    ELSE IF video.duration_seconds # None /\ min_d # None
            /\ video.duration_seconds < min_d THEN TRUE
    ELSE FALSE

\* ------------------------------------------------------- search_videos
\* A tracking set that is never added to.
track_id_dropped(S, id) == S

\* set.add on a tracking set of ids
track_id(S, id) == S \cup {id}

\* One entry of a results page: blank, ignored, seen in this search or seen
\* globally entries are skipped and counted; a fresh one is tracked and kept.
ProcessVideo(id, st, use, ignored) ==
    IF id = 0
    THEN [st EXCEPT !.invalid_videos_filtered = @ + 1]
    ELSE IF use /\ id \in ignored
    THEN [st EXCEPT !.ignored_videos_filtered = @ + 1]
    ELSE IF id \in st.seen \/ id \in st.global
    THEN [st EXCEPT !.duplicates_filtered = @ + 1]
    ELSE [st EXCEPT !.new_videos = Append(@, id),
                    !.seen = track_id(@, id),
                    !.global = track_id(@, id)]

RECURSIVE ProcessPage(_, _, _, _)
ProcessPage(page_videos, st, use, ignored) ==
    IF page_videos = <<>> THEN st
    ELSE ProcessPage(Tail(page_videos),
                     ProcessVideo(Head(page_videos), st, use, ignored), use, ignored)

\* The page loop: pages is what the site serves, page by page; a page past
\* the end of pages is empty.
RECURSIVE SearchLoop(_, _, _, _, _, _, _)
SearchLoop(pages, page, st, empties, limit, use, ignored) ==
    LET n == ignore_list_size_of(use, ignored) IN
    IF ~(Len(st.videos) < limit /\ page <= max_pages_of(n)
         /\ empties < consecutive_empty_limit_of(n))
    THEN st
    ELSE LET page_videos == IF page <= Len(pages) THEN pages[page] ELSE <<>> IN
         IF page_videos = <<>>
         THEN SearchLoop(pages, page + 1, [st EXCEPT !.pages_fetched = @ + 1],
                         empties + 1, limit, use, ignored)
         ELSE LET r == ProcessPage(page_videos,
                                   [new_videos |-> <<>>, seen |-> st.seen,
                                    global |-> st.global,
                                    duplicates_filtered |-> 0,
                                    invalid_videos_filtered |-> 0,
                                    ignored_videos_filtered |-> 0], use, ignored)
              IN SearchLoop(pages, page + 1,
                            [videos |-> st.videos \o r.new_videos,
                             seen |-> r.seen, global |-> r.global,
                             pages_fetched |-> st.pages_fetched + 1,
                             skipped |-> [duplicates |-> st.skipped.duplicates
                                                          + r.duplicates_filtered,
                                          invalid |-> st.skipped.invalid
                                                       + r.invalid_videos_filtered,
                                          ignored |-> st.skipped.ignored
                                                       + r.ignored_videos_filtered]],
                            IF r.new_videos = <<>> THEN 1 ELSE 0,
                            limit, use, ignored)

search_videos(pages, limit, use, ignored, global) ==
    LET r == SearchLoop(pages, 1,
                        [videos |-> <<>>, seen |-> {}, global |-> global,
                         pages_fetched |-> 0,
                         skipped |-> [duplicates |-> 0, invalid |-> 0, ignored |-> 0]],
                        0, limit, use, ignored)
    IN [videos |-> SubSeq(r.videos, 1, Min(limit, Len(r.videos))),
        global_seen_video_ids |-> r.global,
        pages_fetched |-> r.pages_fetched,
        skipped |-> r.skipped]

\* ---------------------------------------------- load_existing_video_ids
EmptyMap == [i \in {} |-> <<0, 0>>]

\* The existing ids are returned but the tracking sets are left as they were.
load_existing_video_ids_untracked(fs, mappings, existing, global) ==
    [existing_ids |-> (DOMAIN mappings) \cup {f[2] : f \in {g \in fs : g[2] # 0}},
     existing_video_ids |-> existing,
     global_seen_video_ids |-> global]

\* The ids of the metadata mappings and the ids at the end of file stems;
\* both tracking sets of the scraper take them in.
load_existing_video_ids(fs, mappings, existing, global) ==
    LET existing_ids == (DOMAIN mappings) \cup {f[2] : f \in {g \in fs : g[2] # 0}}
    IN [existing_ids |-> existing_ids,
        existing_video_ids |-> existing \cup existing_ids,
        global_seen_video_ids |-> global \cup existing_ids]

\* ------------------------------------------------------ download_video
\* outcome is what the network does once the request is sent: "ok", or
\* "failed" for a request error, a size over the limit or a file removed
\* after the duration probe (its id is added and discarded again).
DownloadOutcomes == {"ok", "failed"}

\* A download that fails and leaves the id among the existing ids.
download_video_keeps_failed_id(video, outcome, fs, use, ignored, existing, max_d, min_d) ==
    [success |-> FALSE, filename |-> <<0, 0>>, files |-> fs,
     existing_video_ids |-> existing \cup {video.id}, fetched |-> FALSE]

download_video(video, outcome, fs, use, ignored, existing, max_d, min_d) ==
    LET video_id == video.id
        skip == [success |-> FALSE, filename |-> <<0, 0>>, files |-> fs,
                 existing_video_ids |-> existing, fetched |-> FALSE]
        title_name == <<video.title, 0>>
        filename == IF title_name \in fs THEN <<video.title, video_id>> ELSE title_name
        same_id == {f \in fs : f[2] = video_id}
    IN IF video_id = 0 THEN skip
       ELSE IF use /\ video_id \in ignored THEN skip
       ELSE IF video_id \in existing THEN skip
       ELSE IF video.duration_seconds # None /\ (max_d # None \/ min_d # None)
               /\ ((max_d # None /\ video.duration_seconds > max_d)
                   \/ (min_d # None /\ video.duration_seconds < min_d)) THEN skip
       ELSE IF filename \in fs
            THEN [success |-> TRUE, filename |-> filename, files |-> fs,
                  existing_video_ids |-> existing \cup {video_id}, fetched |-> FALSE]
       ELSE IF same_id # {}
            THEN [success |-> TRUE, filename |-> CHOOSE f \in same_id : TRUE, files |-> fs,
                  existing_video_ids |-> existing \cup {video_id}, fetched |-> FALSE]
       ELSE IF outcome = "ok"
            THEN [success |-> TRUE, filename |-> filename, files |-> fs \cup {filename},
                  existing_video_ids |-> existing \cup {video_id}, fetched |-> TRUE]
       ELSE skip

\* ---------------------------------------------------------------- state
VARIABLES
    \* the query directory and the saved ignore list
    files, video_file_mappings, ignore_list_file,
    \* the scraper instance
    use_ignore_list, current_ignored_video_ids, global_seen_video_ids,
    existing_video_ids, exclude_title_patterns, max_duration_seconds,
    min_duration_seconds,
    \* scrape_and_download: its position and its locals
    pc, count, existing_count, existing_ids_at_start, existing_video_mappings,
    needed_count, successful_downloads, video_filename_mapping,
    total_videos_processed, total_filtered_count, search_attempts,
    max_search_attempts, videos_per_attempt_multiplier, videos_per_attempt,
    all_processed_video_ids, candidate_videos, attempt_downloads, result,
    \* the record of what the run did: the calls made, and whether the site
    \* served an id that was already seen or is ignored
    runs, search_log, filter_log, download_log, seen_at_attempt_start, offered,
    fetched_before, fetched_now,
    \* two ignore-list sizes and the search budgets computed for them
    ignore_sizes, budgets,
    \* an ignore-list size with a number of ids in the existing JSON file,
    \* and the budgets of download mode and of JSON mode computed for them
    excluded_sizes, mode_budgets,
    \* JSON mode: the scraper's settings, the JSON file of the query in the
    \* output directory, the locals of _handle_json_output_mode, and the ids
    \* each JSON run put out
    json_output, sample_from, json_file, existing_video_ids_in_json,
    all_candidate_videos, videos_to_process, multiplier_growths, json_history,
    \* the --count and --sample-from arguments of the last call of main
    args,
    \* random mode: the category queries not yet searched
    search_queries,
    \* VideoFilter.filter_videos: the video files in enumeration order, the
    \* top_k argument, the index of the next file, the (file, similarity)
    \* list, the list before the cut, and the value returned
    video_files, top_k, next_file, video_results, sorted_results, filtered_videos,
    filter_pc,
    \* self.download_dir as the path below the directory the scraper was
    \* given, and the original_download_dir local of the mode functions
    download_dir, original_download_dir,
    \* download mode: the search-page fetches, download_video calls and
    \* sleeps of the run, in order
    request_log,
    \* IgnoreListManager: self.ignore_list, and the last call made on it
    ignore_list, manager_call

diskVars == <<files, video_file_mappings, ignore_list_file>>
scraperVars == <<use_ignore_list, current_ignored_video_ids, global_seen_video_ids,
                 existing_video_ids, exclude_title_patterns, max_duration_seconds,
                 min_duration_seconds>>
configVars == <<use_ignore_list, current_ignored_video_ids, exclude_title_patterns,
                max_duration_seconds, min_duration_seconds>>
budgetVars == <<count, existing_count, existing_ids_at_start, existing_video_mappings,
                needed_count, max_search_attempts, videos_per_attempt_multiplier>>
runVars == <<pc, count, existing_count, existing_ids_at_start, existing_video_mappings,
             needed_count, successful_downloads, video_filename_mapping,
             total_videos_processed, total_filtered_count, search_attempts,
             max_search_attempts, videos_per_attempt_multiplier, videos_per_attempt,
             all_processed_video_ids, candidate_videos, attempt_downloads, result>>
histVars == <<runs, search_log, filter_log, download_log, seen_at_attempt_start,
              offered, fetched_before, fetched_now>>
budgetCheckVars == <<ignore_sizes, budgets, excluded_sizes, mode_budgets>>
jsonVars == <<json_output, sample_from, json_file, existing_video_ids_in_json,
              all_candidate_videos, videos_to_process, multiplier_growths,
              json_history, args>>
randomVars == <<search_queries>>
rankVars == <<video_files, top_k, next_file, video_results, sorted_results,
              filtered_videos, filter_pc>>
managerVars == <<ignore_list, manager_call>>
otherVars == <<budgetCheckVars, jsonVars, randomVars, rankVars, managerVars>>
dirVars == <<download_dir, original_download_dir>>
vars == <<diskVars, scraperVars, runVars, histVars, otherVars, dirVars, request_log>>

NoResult == 0 - 1
NothingOffered == [seen |-> FALSE, ignored |-> FALSE]

RunInit ==
    /\ files = {}
    /\ video_file_mappings = EmptyMap
    /\ ignore_list_file \in IgnoreLists
    /\ use_ignore_list = TRUE
    /\ current_ignored_video_ids = {}
    /\ global_seen_video_ids = {}
    /\ existing_video_ids = {}
    /\ exclude_title_patterns = {}
    /\ max_duration_seconds = None
    /\ min_duration_seconds = None
    /\ pc = "off"
    /\ count = 0
    /\ existing_count = 0
    /\ existing_ids_at_start = {}
    /\ existing_video_mappings = EmptyMap
    /\ needed_count = 0
    /\ successful_downloads = 0
    /\ video_filename_mapping = EmptyMap
    /\ total_videos_processed = 0
    /\ total_filtered_count = 0
    /\ search_attempts = 0
    /\ max_search_attempts = 0
    /\ videos_per_attempt_multiplier = 0
    /\ videos_per_attempt = 0
    /\ all_processed_video_ids = {}
    /\ candidate_videos = <<>>
    /\ attempt_downloads = 0
    /\ result = NoResult
    /\ runs = 0
    /\ search_log = <<>>
    /\ filter_log = <<>>
    /\ download_log = <<>>
    /\ seen_at_attempt_start = {}
    /\ offered = NothingOffered
    /\ fetched_before = {}
    /\ fetched_now = {}

NotComputed == <<0, 0>>

\* self.download_dir = Path(download_dir): the directory the scraper is given
BaseDir == <<>>

\* No call has been made on the ignore-list manager.
NoCall == [op |-> "none", video_ids |-> <<>>, returned |-> 0, answer |-> FALSE,
           before |-> {}]

NoArgs == [count |-> 0, sample_from |-> 0]

\* No JSON file written yet; a file holds the list of ids of its entries.
NoFile == <<0>>

ModeInit ==
    /\ json_output = FALSE
    /\ sample_from = None
    /\ json_file = NoFile
    /\ existing_video_ids_in_json = {}
    /\ all_candidate_videos = <<>>
    /\ videos_to_process = <<>>
    /\ multiplier_growths = 0
    /\ json_history = <<>>
    /\ args = NoArgs
    /\ search_queries = 0
    /\ video_files = <<>>
    /\ top_k = 0
    /\ next_file = 1
    /\ video_results = <<>>
    /\ sorted_results = <<>>
    /\ filtered_videos = <<>>
    /\ filter_pc = "off"
    /\ download_dir = BaseDir
    /\ original_download_dir = BaseDir
    /\ request_log = <<>>
    /\ ignore_list = {}
    /\ manager_call = NoCall

Init ==
    /\ RunInit
    /\ ModeInit
    /\ ignore_sizes = <<0, 0>>
    /\ budgets = NotComputed
    /\ excluded_sizes = <<0, 0>>
    /\ mode_budgets = NotComputed

\* -------------------------------------------------------------- actions
\* The ignore list file is never read.
current_ignored_video_ids_of_unloaded(use, file) == {}

\* The ignore list of a new scraper: the ids of the query's ignore list file
\* when the ignore list is enabled, else the empty set.
current_ignored_video_ids_of(use, file) == IF use THEN file ELSE {}

\* A new process: AdobeStockScraper(...) with the ignore list loaded from
\* its file when the ignore list is enabled, and empty tracking sets.
Construct(use, patterns, max_d, min_d) ==
    /\ pc \in {"off", "done", "rejected"}
    /\ runs < MaxRuns
    /\ runs' = runs + 1
    /\ use_ignore_list' = use
    /\ current_ignored_video_ids' = current_ignored_video_ids_of(use, ignore_list_file)
    /\ global_seen_video_ids' = {}
    /\ existing_video_ids' = {}
    /\ exclude_title_patterns' = patterns
    /\ max_duration_seconds' = max_d
    /\ min_duration_seconds' = min_d
    /\ pc' = "ready"
    /\ count' = 0
    /\ existing_count' = 0
    /\ existing_ids_at_start' = {}
    /\ existing_video_mappings' = EmptyMap
    /\ needed_count' = 0
    /\ successful_downloads' = 0
    /\ video_filename_mapping' = EmptyMap
    /\ total_videos_processed' = 0
    /\ total_filtered_count' = 0
    /\ search_attempts' = 0
    /\ max_search_attempts' = 0
    /\ videos_per_attempt_multiplier' = 0
    /\ videos_per_attempt' = 0
    /\ all_processed_video_ids' = {}
    /\ candidate_videos' = <<>>
    /\ attempt_downloads' = 0
    /\ result' = NoResult
    /\ search_log' = <<>>
    /\ filter_log' = <<>>
    /\ download_log' = <<>>
    /\ seen_at_attempt_start' = {}
    /\ offered' = NothingOffered
    /\ fetched_before' = fetched_before \cup fetched_now
    /\ fetched_now' = {}
    /\ download_dir' = BaseDir
    /\ original_download_dir' = BaseDir
    /\ request_log' = <<>>
    /\ UNCHANGED diskVars

NewScraper(use, patterns, max_d, min_d) ==
    /\ Construct(use, patterns, max_d, min_d)
    /\ json_output' = FALSE
    /\ sample_from' = None
    /\ UNCHANGED <<json_file, existing_video_ids_in_json, all_candidate_videos,
                   videos_to_process, multiplier_growths, json_history, args,
                   budgetCheckVars, randomVars, rankVars, managerVars>>

\* scrape_and_download(query, c) up to the search loop: the existing ids and
\* files are read, and either the run returns at once (enough videos exist;
\* the metadata file is rewritten from the fresh metadata dict, which holds
\* no video_file_mappings) or the budget is computed and the loop entered.
ScrapeAndDownload(c) ==
    /\ pc = "ready"
    /\ ~json_output
    /\ original_download_dir' = download_dir
    /\ download_dir' = Append(download_dir, "query")
    /\ UNCHANGED request_log
    /\ LET loaded == load_existing_video_ids(files, video_file_mappings,
                                             existing_video_ids, global_seen_video_ids)
           ec == Cardinality(files)
           needed == IF c > ec THEN c - ec ELSE 0
           n == ignore_list_size_of(use_ignore_list, current_ignored_video_ids)
       IN /\ count' = c
          /\ existing_count' = ec
          /\ existing_ids_at_start' = loaded.existing_ids
          /\ existing_video_ids' = loaded.existing_video_ids
          /\ global_seen_video_ids' = loaded.global_seen_video_ids
          /\ existing_video_mappings' = video_file_mappings
          /\ needed_count' = needed
          /\ IF needed <= 0
             THEN /\ video_file_mappings' = EmptyMap
                  /\ result' = ec
                  /\ pc' = "done"
                  /\ UNCHANGED <<max_search_attempts, videos_per_attempt_multiplier,
                                 videos_per_attempt>>
             ELSE /\ max_search_attempts' = max_search_attempts_of(n)
                  /\ videos_per_attempt_multiplier' = videos_per_attempt_multiplier_of(n)
                  /\ videos_per_attempt' =
                         (needed * videos_per_attempt_multiplier_of(n)) \div 1000
                  /\ pc' = "loop"
                  /\ UNCHANGED <<video_file_mappings, result>>
    /\ UNCHANGED <<files, ignore_list_file, configVars, successful_downloads,
                   video_filename_mapping, total_videos_processed, total_filtered_count,
                   search_attempts, all_processed_video_ids, candidate_videos,
                   attempt_downloads, histVars>>
    /\ UNCHANGED otherVars

\* What a search_videos call puts on the wire: for every page of its loop,
\* the fetch of the page and then time.sleep(self.delay)
RECURSIVE search_requests(_)
search_requests(pages_fetched) ==
    IF pages_fetched = 0 THEN <<>>
    ELSE <<"search_page", "sleep">> \o search_requests(pages_fetched - 1)

\* while successful_downloads < needed_count and search_attempts < max_search_attempts
LoopContinues ==
    successful_downloads < needed_count /\ search_attempts < max_search_attempts

\* max(remaining_needed * int(videos_per_attempt_multiplier * 2), videos_per_attempt)
current_search_limit ==
    Max((needed_count - successful_downloads)
            * ((videos_per_attempt_multiplier * 2) \div 1000),
        videos_per_attempt)

\* The returned videos that have an id, are not existing and were not
\* processed in this run; each one kept is marked as processed.
RECURSIVE new_videos_of(_, _, _, _)
new_videos_of(videos, existing, processed, acc) ==
    IF videos = <<>> THEN [new_videos |-> acc, all_processed_video_ids |-> processed]
    ELSE LET video_id == Head(videos) IN
         IF video_id # 0 /\ video_id \notin existing /\ video_id \notin processed
         THEN new_videos_of(Tail(videos), existing, track_id(processed, video_id),
                            Append(acc, video_id))
         ELSE new_videos_of(Tail(videos), existing, processed, acc)

Filtered(id) ==
    should_filter_video(Video(id), exclude_title_patterns, max_duration_seconds,
                        min_duration_seconds)

NotFiltered(id) == ~Filtered(id)

RECURSIVE Reverse(_)
Reverse(q) == IF q = <<>> THEN <<>> ELSE Append(Reverse(Tail(q)), Head(q))

\* The candidates taken last first.
candidates_of_reversed(new_videos) == Reverse(SelectSeq(new_videos, NotFiltered))

\* The filter counts a video but lets it through.
candidates_of_unfiltered(new_videos) == new_videos

\* The videos that go on to the download loop, in the order they came.
candidates_of(new_videos) == SelectSeq(new_videos, NotFiltered)

\* if not videos: break
on_no_videos == "finish"

\* One pass of the while loop up to the download loop: the search, the
\* new-video pass and the title/duration filter.
SearchAttempt(pages) ==
    /\ pc = "loop"
    /\ LoopContinues
    /\ LET limit == current_search_limit
           found == search_videos(pages, limit, use_ignore_list,
                                  current_ignored_video_ids, global_seen_video_ids)
           videos == found.videos
           fresh == new_videos_of(videos, existing_video_ids, all_processed_video_ids, <<>>)
           new_videos == fresh.new_videos
           candidates == candidates_of(new_videos)
           snapshot == global_seen_video_ids \cup all_processed_video_ids
           filtered_now == Cardinality({i \in 1..Len(new_videos) : Filtered(new_videos[i])})
       IN /\ search_attempts' = search_attempts + 1
          /\ global_seen_video_ids' = found.global_seen_video_ids
          /\ seen_at_attempt_start' = snapshot
          /\ search_log' = Append(search_log,
                                  [attempt |-> search_attempts + 1, limit |-> limit,
                                   videos |-> videos,
                                   downloads_before |-> successful_downloads])
          /\ offered' = [seen |-> offered.seen
                                      \/ Range(Flatten(pages)) \cap snapshot # {},
                         ignored |-> offered.ignored
                                      \/ Range(Flatten(pages)) \cap current_ignored_video_ids # {}]
          /\ IF videos = <<>>
             THEN \* if not videos: break
                  /\ pc' = on_no_videos
                  /\ UNCHANGED <<all_processed_video_ids, videos_per_attempt,
                                 total_filtered_count, candidate_videos, filter_log>>
             ELSE /\ all_processed_video_ids' = fresh.all_processed_video_ids
                  /\ IF new_videos = <<>>
                     THEN /\ videos_per_attempt' = (videos_per_attempt * 3) \div 2
                          /\ pc' = "loop"
                          /\ UNCHANGED <<total_filtered_count, candidate_videos, filter_log>>
                     ELSE /\ total_filtered_count' = total_filtered_count + filtered_now
                          /\ filter_log' = filter_log \o
                                 [i \in 1..Len(new_videos) |->
                                     [id |-> new_videos[i],
                                      filtered |-> Filtered(new_videos[i]),
                                      seen_before |-> new_videos[i] \in snapshot]]
                          /\ candidate_videos' = candidates
                          /\ pc' = IF candidates = <<>> THEN "loop" ELSE "download"
                          /\ UNCHANGED videos_per_attempt
          /\ attempt_downloads' = 0
          /\ request_log' = request_log \o search_requests(found.pages_fetched)
    /\ UNCHANGED dirVars
    /\ UNCHANGED <<diskVars, configVars, existing_video_ids, budgetVars,
                   successful_downloads, video_filename_mapping, total_videos_processed,
                   result, runs, download_log, fetched_before, fetched_now>>
    /\ UNCHANGED otherVars

\* The download loop without its break at the target.
DownloadLoopContinues_nobreak == candidate_videos # <<>>

\* for video in candidate_videos: if successful_downloads >= needed_count: break
DownloadLoopContinues ==
    candidate_videos # <<>> /\ successful_downloads < needed_count

\* Every download_video call is counted, whatever it returned.
count_download_always(n, success) == n + 1

\* if success: successful_downloads += 1 (and attempt_downloads += 1)
count_download(n, success) == IF success THEN n + 1 ELSE n

\* The download loop without its sleep.
download_requests_unthrottled == <<"download_video">>

\* One pass of the download loop puts on the wire: the download_video call,
\* then time.sleep(self.delay)
download_requests == <<"download_video", "sleep">>

\* One pass of the download loop: download_video on the next candidate.
DownloadNext(outcome) ==
    /\ pc = "download"
    /\ DownloadLoopContinues
    /\ LET video_id == Head(candidate_videos)
           r == download_video(Video(video_id), outcome, files, use_ignore_list,
                               current_ignored_video_ids, existing_video_ids,
                               max_duration_seconds, min_duration_seconds)
       IN /\ total_videos_processed' = total_videos_processed + 1
          /\ files' = r.files
          /\ existing_video_ids' = r.existing_video_ids
          /\ successful_downloads' = count_download(successful_downloads, r.success)
          /\ attempt_downloads' = count_download(attempt_downloads, r.success)
          /\ video_filename_mapping' =
                 IF r.success
                 THEN [i \in (DOMAIN video_filename_mapping) \cup {video_id} |->
                          IF i = video_id THEN r.filename ELSE video_filename_mapping[i]]
                 ELSE video_filename_mapping
          /\ download_log' = Append(download_log,
                                    [id |-> video_id, success |-> r.success,
                                     attempt |-> search_attempts,
                                     seen_before |-> video_id \in seen_at_attempt_start,
                                     downloads_before |-> successful_downloads])
          /\ fetched_now' = IF r.fetched THEN fetched_now \cup {video_id} ELSE fetched_now
          /\ candidate_videos' = Tail(candidate_videos)
    /\ pc' = "download"
    /\ UNCHANGED <<video_file_mappings, ignore_list_file, configVars,
                   global_seen_video_ids, budgetVars, total_filtered_count,
                   search_attempts, videos_per_attempt, all_processed_video_ids, result,
                   runs, search_log, filter_log, seen_at_attempt_start, offered,
                   fetched_before>>
    /\ UNCHANGED otherVars
    /\ request_log' = request_log \o download_requests
    /\ UNCHANGED dirVars

\* The breadth raised by half.
grow_after_no_downloads_by_half(v) == (v * 3) \div 2

\* videos_per_attempt = int(videos_per_attempt * 2)
grow_after_no_downloads(v) == v * 2

\* The end of a pass whose download loop ran: the breadth is doubled when
\* nothing was downloaded, and the while loop is entered again.
EndAttempt ==
    /\ pc = "download"
    /\ ~DownloadLoopContinues
    /\ videos_per_attempt' =
           IF attempt_downloads = 0 THEN grow_after_no_downloads(videos_per_attempt)
           ELSE videos_per_attempt
    /\ candidate_videos' = <<>>
    /\ pc' = "loop"
    /\ UNCHANGED <<diskVars, scraperVars, budgetVars, successful_downloads,
                   video_filename_mapping, total_videos_processed, total_filtered_count,
                   search_attempts, all_processed_video_ids, attempt_downloads, result,
                   histVars>>
    /\ UNCHANGED otherVars
    /\ request_log' =
           IF successful_downloads < needed_count /\ search_attempts < max_search_attempts
           THEN Append(request_log, "sleep")
           ELSE request_log
    /\ UNCHANGED dirVars

\* dict.update: the entries of b, and those of a under other keys
MergeMaps(a, b) ==
    [i \in (DOMAIN a) \cup (DOMAIN b) |-> IF i \in DOMAIN b THEN b[i] ELSE a[i]]

\* The requested count reported as the total.
total_files_requested == count

\* total_files = existing_count + successful_downloads
total_files == existing_count + successful_downloads

\* After the loop: the metadata file gets the old and the new mappings and
\* the total number of files is returned.
Finish ==
    /\ pc = "finish" \/ (pc = "loop" /\ ~LoopContinues)
    /\ video_file_mappings' = MergeMaps(existing_video_mappings, video_filename_mapping)
    /\ result' = total_files
    /\ pc' = "done"
    /\ UNCHANGED <<files, ignore_list_file, scraperVars, budgetVars, successful_downloads,
                   video_filename_mapping, total_videos_processed, total_filtered_count,
                   search_attempts, videos_per_attempt, all_processed_video_ids,
                   candidate_videos, attempt_downloads, histVars>>
    /\ UNCHANGED otherVars
    /\ download_dir' = original_download_dir
    /\ UNCHANGED <<original_download_dir, request_log>>

Next ==
    \/ \E use \in BOOLEAN, patterns \in ExcludeChoices,
          max_d \in MaxDurationChoices, min_d \in MinDurationChoices :
          NewScraper(use, patterns, max_d, min_d)
    \/ \E c \in 1..MaxCount : ScrapeAndDownload(c)
    \/ \E pages \in PageSeqs : SearchAttempt(pages)
    \/ \E outcome \in DownloadOutcomes : DownloadNext(outcome)
    \/ EndAttempt
    \/ Finish

Spec == Init /\ [][Next]_vars

\* ----------------------------------------------------------- random mode
\* is_duplicate_video(video) with add_to_tracking left at False
is_duplicate_video(id, use, ignored, global) ==
    IF id = 0 THEN FALSE
    ELSE IF use /\ id \in ignored THEN TRUE
    ELSE id \in global

\* min(10, needed_count - successful_downloads + 5)
videos_per_query == Min(10, (needed_count - successful_downloads) + 5)

\* scrape_random_videos(c) up to the loop over the category queries: the
\* existing ids and files of random_videos are read, and either the run
\* returns at once or needed_count * 2 queries are drawn.
ScrapeRandomVideos(c) ==
    /\ pc = "ready"
    /\ ~json_output
    /\ original_download_dir' = download_dir
    /\ download_dir' = Append(download_dir, "random_videos")
    /\ UNCHANGED request_log
    /\ LET loaded == load_existing_video_ids(files, video_file_mappings,
                                             existing_video_ids, global_seen_video_ids)
           ec == Cardinality(files)
           needed == IF c > ec THEN c - ec ELSE 0
       IN /\ count' = c
          /\ existing_count' = ec
          /\ existing_ids_at_start' = loaded.existing_ids
          /\ existing_video_ids' = loaded.existing_video_ids
          /\ global_seen_video_ids' = loaded.global_seen_video_ids
          /\ existing_video_mappings' = video_file_mappings
          /\ needed_count' = needed
          /\ IF needed <= 0
             THEN /\ result' = ec
                  /\ pc' = "done"
                  /\ UNCHANGED search_queries
             ELSE /\ search_queries' = needed * 2
                  /\ pc' = "random_loop"
                  /\ UNCHANGED result
    /\ UNCHANGED <<diskVars, configVars, successful_downloads, video_filename_mapping,
                   total_videos_processed, total_filtered_count, search_attempts,
                   max_search_attempts, videos_per_attempt_multiplier,
                   videos_per_attempt, all_processed_video_ids, candidate_videos,
                   attempt_downloads, histVars, budgetCheckVars, managerVars, jsonVars, rankVars>>

\* for query in search_queries: if successful_downloads >= needed_count: break
RandomLoopContinues ==
    /\ search_queries > 0
    /\ successful_downloads < needed_count

\* The search of one category; its videos are what the inner loop goes over.
RandomSearch(pages) ==
    /\ pc = "random_loop"
    /\ RandomLoopContinues
    /\ LET found == search_videos(pages, videos_per_query, use_ignore_list,
                                  current_ignored_video_ids, global_seen_video_ids)
       IN /\ global_seen_video_ids' = found.global_seen_video_ids
          /\ seen_at_attempt_start' = global_seen_video_ids
          /\ search_attempts' = search_attempts + 1
          /\ search_log' = Append(search_log,
                 [attempt |-> search_attempts + 1, limit |-> videos_per_query,
                  videos |-> found.videos, downloads_before |-> successful_downloads])
          /\ candidate_videos' = found.videos
          /\ pc' = IF found.videos = <<>> THEN "random_loop" ELSE "random_videos"
    /\ search_queries' = search_queries - 1
    /\ UNCHANGED <<diskVars, configVars, existing_video_ids, budgetVars,
                   successful_downloads, video_filename_mapping,
                   total_videos_processed, total_filtered_count, videos_per_attempt,
                   all_processed_video_ids, attempt_downloads, result, runs,
                   filter_log, download_log, offered, fetched_before, fetched_now,
                   budgetCheckVars, managerVars, jsonVars, rankVars>>
    /\ UNCHANGED <<dirVars, request_log>>

\* for video in videos: if successful_downloads >= needed_count: break
RandomVideosContinue ==
    /\ candidate_videos # <<>>
    /\ successful_downloads < needed_count

\* One video of the category: skipped as a duplicate, or filtered, or
\* marked as seen and handed to download_video.
RandomProcessVideo(outcome) ==
    /\ pc = "random_videos"
    /\ RandomVideosContinue
    /\ LET video_id == Head(candidate_videos)
           r == download_video(Video(video_id), outcome, files, use_ignore_list,
                               current_ignored_video_ids, existing_video_ids,
                               max_duration_seconds, min_duration_seconds)
       IN IF is_duplicate_video(video_id, use_ignore_list,
                                current_ignored_video_ids, global_seen_video_ids)
          THEN UNCHANGED <<files, existing_video_ids, global_seen_video_ids,
                           successful_downloads, video_filename_mapping,
                           total_videos_processed, total_filtered_count,
                           download_log, fetched_now>>
          ELSE IF Filtered(video_id)
          THEN /\ total_filtered_count' = total_filtered_count + 1
               /\ UNCHANGED <<files, existing_video_ids, global_seen_video_ids,
                              successful_downloads, video_filename_mapping,
                              total_videos_processed, download_log, fetched_now>>
          ELSE /\ total_videos_processed' = total_videos_processed + 1
               /\ global_seen_video_ids' = track_id(global_seen_video_ids, video_id)
               /\ files' = r.files
               /\ existing_video_ids' = r.existing_video_ids
               /\ successful_downloads' = count_download(successful_downloads, r.success)
               /\ video_filename_mapping' =
                      IF r.success
                      THEN [i \in (DOMAIN video_filename_mapping) \cup {video_id} |->
                               IF i = video_id THEN r.filename
                               ELSE video_filename_mapping[i]]
                      ELSE video_filename_mapping
               /\ download_log' = Append(download_log,
                                         [id |-> video_id, success |-> r.success,
                                          attempt |-> search_attempts,
                                          seen_before |-> video_id \in seen_at_attempt_start,
                                          downloads_before |-> successful_downloads])
               /\ fetched_now' = IF r.fetched THEN fetched_now \cup {video_id}
                                 ELSE fetched_now
               /\ UNCHANGED total_filtered_count
    /\ candidate_videos' = Tail(candidate_videos)
    /\ pc' = "random_videos"
    /\ UNCHANGED <<video_file_mappings, ignore_list_file, configVars, budgetVars,
                   search_attempts, videos_per_attempt, all_processed_video_ids,
                   attempt_downloads, result, runs, search_log, filter_log,
                   seen_at_attempt_start, offered, fetched_before, otherVars>>
    /\ UNCHANGED <<dirVars, request_log>>

\* The inner loop is over: on to the next category.
RandomEndQuery ==
    /\ pc = "random_videos"
    /\ ~RandomVideosContinue
    /\ pc' = "random_loop"
    /\ UNCHANGED <<diskVars, scraperVars, budgetVars, successful_downloads,
                   video_filename_mapping, total_videos_processed,
                   total_filtered_count, search_attempts, videos_per_attempt,
                   all_processed_video_ids, candidate_videos, attempt_downloads,
                   result, histVars, otherVars>>
    /\ UNCHANGED <<dirVars, request_log>>

\* After the categories: random_metadata.json gets the old and the new
\* mappings and the total number of files is returned.
RandomFinish ==
    /\ pc = "random_loop"
    /\ ~RandomLoopContinues
    /\ video_file_mappings' = MergeMaps(existing_video_mappings, video_filename_mapping)
    /\ result' = total_files
    /\ pc' = "done"
    /\ UNCHANGED <<files, ignore_list_file, scraperVars, budgetVars, successful_downloads,
                   video_filename_mapping, total_videos_processed, total_filtered_count,
                   search_attempts, videos_per_attempt, all_processed_video_ids,
                   candidate_videos, attempt_downloads, histVars, otherVars>>
    /\ download_dir' = original_download_dir
    /\ UNCHANGED <<original_download_dir, request_log>>

NextRandom ==
    \/ \E use \in BOOLEAN, patterns \in ExcludeChoices,
          max_d \in MaxDurationChoices, min_d \in MinDurationChoices :
          NewScraper(use, patterns, max_d, min_d)
    \/ \E c \in 1..MaxCount : ScrapeRandomVideos(c)
    \/ \E pages \in PageSeqs : RandomSearch(pages)
    \/ \E outcome \in DownloadOutcomes : RandomProcessVideo(outcome)
    \/ RandomEndQuery
    \/ RandomFinish

SpecRandom == Init /\ [][NextRandom]_vars

\* ------------------------------------------------------------ JSON mode
\* The arguments of main: --sample-from is absent or one of 1..MaxSample.
SampleChoices == {None} \cup (1..MaxSample)

\* Only the check the constructor makes: sample_from is positive.
sample_args_valid_positive(c, sf) == sf = None \/ sf > 0

\* main's check of --sample-from against --count; parser.error ends the
\* process when it fails.
sample_args_valid(c, sf) == sf = None \/ (sf > 0 /\ sf > c)

\* main with --json-output: the arguments are checked, then the scraper is
\* built with json_output and sample_from set.
MainJson(c, sf, use, patterns, max_d, min_d) ==
    /\ pc \in {"off", "done", "rejected"}
    /\ runs < MaxRuns
    /\ args' = [count |-> c, sample_from |-> sf]
    /\ IF sample_args_valid(c, sf)
       THEN /\ Construct(use, patterns, max_d, min_d)
            /\ json_output' = TRUE
            /\ sample_from' = sf
            /\ existing_video_ids_in_json' = {}
            /\ all_candidate_videos' = <<>>
            /\ videos_to_process' = <<>>
            /\ multiplier_growths' = 0
            /\ UNCHANGED <<json_file, json_history>>
       ELSE /\ pc' = "rejected"
            /\ runs' = runs + 1
            /\ search_log' = <<>>
            /\ UNCHANGED <<diskVars, scraperVars, count, existing_count,
                           existing_ids_at_start, existing_video_mappings,
                           needed_count, successful_downloads, video_filename_mapping,
                           total_videos_processed, total_filtered_count,
                           search_attempts, max_search_attempts,
                           videos_per_attempt_multiplier, videos_per_attempt,
                           all_processed_video_ids, candidate_videos,
                           attempt_downloads, result, filter_log, download_log,
                           seen_at_attempt_start, offered, fetched_before,
                           fetched_now, json_output, sample_from, json_file,
                           existing_video_ids_in_json, all_candidate_videos,
                           videos_to_process, multiplier_growths, json_history,
                           dirVars, request_log>>
    /\ UNCHANGED <<budgetCheckVars, managerVars, randomVars, rankVars>>

\* search_count = sample_from if sample_from and sample_from > count else count
search_count_of(c, sf) == IF sf # None /\ sf > c THEN sf ELSE c

search_count == search_count_of(count, sample_from)

\* The ids of the entries of the query's JSON file, if there is one.
ids_in_json_file(file) == IF file = NoFile THEN {} ELSE Range(file)

total_excluded_count_of(n, in_json) == n + Cardinality(in_json)

\* The multiplier of JSON mode with the cap of download mode.
json_search_multiplier_cap70(n) == Max(1500, 1000 + (Min(n, 700) * 2))

\* search_multiplier of JSON mode in thousandths:
\* max(1.5, 1 + min(n / 1000, 0.6) * 2)
json_search_multiplier(n) == Max(1500, 1000 + (Min(n, 600) * 2))

\* int(base_max_attempts * search_multiplier), or the base when nothing is
\* excluded
json_max_search_attempts_of(n) ==
    IF n > 0 THEN (json_base_max_attempts * json_search_multiplier(n)) \div 1000
    ELSE json_base_max_attempts

\* videos_per_attempt_multiplier of JSON mode in thousandths
json_videos_per_attempt_multiplier_of(n) ==
    IF n > 0
    THEN Max(base_multiplier * 1000, base_multiplier * json_search_multiplier(n))
    ELSE base_multiplier * 1000

\* scrape_and_download in JSON mode, up to the collection loop of
\* _handle_json_output_mode: the ids of the existing JSON file are read and
\* marked as seen, and the budget is set.  (videos_per_attempt is set here
\* by the code and never read in JSON mode.)
HandleJsonOutputMode ==
    /\ pc = "ready"
    /\ json_output
    /\ LET in_json == ids_in_json_file(json_file)
           n == total_excluded_count_of(
                    ignore_list_size_of(use_ignore_list, current_ignored_video_ids),
                    in_json)
       IN /\ count' = args.count
          /\ existing_video_ids_in_json' = in_json
          /\ global_seen_video_ids' = global_seen_video_ids \cup in_json
          /\ max_search_attempts' = json_max_search_attempts_of(n)
          /\ videos_per_attempt_multiplier' = json_videos_per_attempt_multiplier_of(n)
    /\ multiplier_growths' = 0
    /\ all_candidate_videos' = <<>>
    /\ total_filtered_count' = 0
    /\ search_attempts' = 0
    /\ seen_at_attempt_start' = global_seen_video_ids'
    /\ pc' = "json_loop"
    /\ UNCHANGED <<diskVars, configVars, existing_video_ids, existing_count,
                   existing_ids_at_start, existing_video_mappings, needed_count,
                   successful_downloads, video_filename_mapping,
                   total_videos_processed, videos_per_attempt,
                   all_processed_video_ids, candidate_videos, attempt_downloads,
                   result, runs, search_log, filter_log, download_log, offered,
                   fetched_before, fetched_now, json_output, sample_from, json_file,
                   videos_to_process, json_history, args, budgetCheckVars, managerVars,
                   randomVars, rankVars>>
    /\ UNCHANGED <<dirVars, request_log>>

\* while len(all_candidate_videos) < search_count and search_attempts < max
JsonLoopContinues ==
    /\ Len(all_candidate_videos) < search_count
    /\ search_attempts < max_search_attempts

\* int(videos_per_attempt_multiplier * search_attempts * search_count), the
\* multiplier having been multiplied by 1.5 multiplier_growths times
json_search_limit(attempt) ==
    (videos_per_attempt_multiplier * (3 ^ multiplier_growths) * attempt * search_count)
        \div (1000 * (2 ^ multiplier_growths))

\* The videos of a search result that are neither candidates already nor in
\* the existing JSON file, in the order they came.
RECURSIVE json_new_videos_of(_, _, _, _)
json_new_videos_of(videos, candidates, in_json, acc) ==
    IF videos = <<>> THEN acc
    ELSE LET id == Head(videos)
         IN IF id # 0 /\ id \notin Range(candidates) /\ id \notin in_json
            THEN json_new_videos_of(Tail(videos), candidates, in_json, Append(acc, id))
            ELSE json_new_videos_of(Tail(videos), candidates, in_json, acc)

\* list.remove(x): the list without its first element equal to x
RECURSIVE ListRemove(_, _)
ListRemove(s, x) ==
    IF s = <<>> THEN <<>>
    ELSE IF Head(s) = x THEN Tail(s)
    ELSE <<Head(s)>> \o ListRemove(Tail(s), x)

\* A filtered video is counted but stays among the candidates.
drop_if_filtered_kept(candidates, id) == candidates

\* if self.should_filter_video(video): all_candidate_videos.remove(video)
drop_if_filtered(candidates, id) ==
    IF Filtered(id) /\ id \in Range(candidates) THEN ListRemove(candidates, id)
    ELSE candidates

RECURSIVE remove_filtered(_, _)
\* The pass over new_videos that applies the filter.
remove_filtered(candidates, new_videos) ==
    IF new_videos = <<>> THEN candidates
    ELSE remove_filtered(drop_if_filtered(candidates, Head(new_videos)),
                         Tail(new_videos))

\* One pass of the collection loop: a search, the new videos appended to
\* the candidates, the filtered ones removed again, and the multiplier
\* raised when the loop goes on.
JsonSearchAttempt(pages) ==
    /\ pc = "json_loop"
    /\ JsonLoopContinues
    /\ LET attempt == search_attempts + 1
           limit == json_search_limit(attempt)
           found == search_videos(pages, limit, use_ignore_list,
                                  current_ignored_video_ids, global_seen_video_ids)
           videos == found.videos
           new_videos == json_new_videos_of(videos, all_candidate_videos,
                                            existing_video_ids_in_json, <<>>)
           filtered == SelectSeq(new_videos, Filtered)
           kept == remove_filtered(all_candidate_videos \o new_videos, new_videos)
       IN /\ search_attempts' = attempt
          /\ global_seen_video_ids' = found.global_seen_video_ids
          /\ search_log' = Append(search_log,
                 [attempt |-> attempt, limit |-> limit, videos |-> videos,
                  downloads_before |-> Len(all_candidate_videos)])
          /\ IF videos = <<>> \/ new_videos = <<>>
             THEN /\ pc' = "json_finish"
                  /\ UNCHANGED <<all_candidate_videos, total_filtered_count,
                                 multiplier_growths>>
             ELSE /\ all_candidate_videos' = kept
                  /\ total_filtered_count' = total_filtered_count + Len(filtered)
                  /\ IF Len(kept) >= search_count
                     THEN /\ pc' = "json_finish"
                          /\ UNCHANGED multiplier_growths
                     ELSE /\ pc' = "json_loop"
                          /\ multiplier_growths' = multiplier_growths + 1
    /\ UNCHANGED <<diskVars, configVars, existing_video_ids, count, existing_count,
                   existing_ids_at_start, existing_video_mappings, needed_count,
                   successful_downloads, video_filename_mapping,
                   total_videos_processed, max_search_attempts,
                   videos_per_attempt_multiplier, videos_per_attempt,
                   all_processed_video_ids, candidate_videos, attempt_downloads,
                   result, runs, filter_log, download_log, seen_at_attempt_start,
                   offered, fetched_before, fetched_now, json_output, sample_from,
                   json_file, existing_video_ids_in_json, videos_to_process,
                   json_history, args, budgetCheckVars, managerVars, randomVars, rankVars>>
    /\ UNCHANGED <<dirVars, request_log>>

\* The first n elements of a sequence, or all of it: s[:n]
Take(s, n) == SubSeq(s, 1, Min(n, Len(s)))

\* The sequences of k elements drawn from the population with replacement.
random_sample_with_replacement(population, k) ==
    [1..k -> Range(population)]

\* random.sample(population, k): the sequences of k elements of the
\* population, no position of the population taken twice.
random_sample(population, k) ==
    {[i \in 1..k |-> population[f[i]]] :
        f \in {g \in [1..k -> 1..Len(population)] :
                  \A i, j \in 1..k : i # j => g[i] # g[j]}}

\* Phase 2: the candidates cut to search_count, and from them either a
\* random sample of count videos or the first count candidates.
videos_to_process_choices ==
    LET pool == Take(all_candidate_videos, search_count)
    IN IF sample_from # None /\ sample_from > count /\ Len(pool) >= count
       THEN random_sample(pool, count)
       ELSE {Take(all_candidate_videos, count)}

\* The end of _handle_json_output_mode: the videos are chosen and
\* save_json_output writes them to <query>.json, replacing the file.
JsonFinish ==
    /\ \/ pc = "json_finish"
       \/ pc = "json_loop" /\ ~JsonLoopContinues
    /\ \E chosen \in videos_to_process_choices :
          /\ videos_to_process' = chosen
          /\ json_file' = chosen
          /\ json_history' = Append(json_history, chosen)
          /\ result' = Len(chosen)
    /\ pc' = "done"
    /\ UNCHANGED <<diskVars, scraperVars, count, existing_count,
                   existing_ids_at_start, existing_video_mappings, needed_count,
                   successful_downloads, video_filename_mapping,
                   total_videos_processed, total_filtered_count, search_attempts,
                   max_search_attempts, videos_per_attempt_multiplier,
                   videos_per_attempt, all_processed_video_ids, candidate_videos,
                   attempt_downloads, histVars, json_output, sample_from,
                   existing_video_ids_in_json, all_candidate_videos,
                   multiplier_growths, args, budgetCheckVars, managerVars, randomVars, rankVars>>
    /\ UNCHANGED <<dirVars, request_log>>

NextJson ==
    \/ \E c \in 1..MaxCount, sf \in SampleChoices, use \in BOOLEAN,
          patterns \in ExcludeChoices :
          MainJson(c, sf, use, patterns, None, None)
    \/ HandleJsonOutputMode
    \/ \E pages \in PageSeqs : JsonSearchAttempt(pages)
    \/ JsonFinish

SpecJson == Init /\ [][NextJson]_vars

\* ------------------------------------------------- the three modes
\* The first MaxModeRuns processes, each in download mode, random mode or
\* JSON mode.
FirstScraper(use, patterns, max_d, min_d) ==
    /\ runs < MaxModeRuns
    /\ NewScraper(use, patterns, max_d, min_d)

FirstMainJson(c, sf, use, patterns, max_d, min_d) ==
    /\ runs < MaxModeRuns
    /\ MainJson(c, sf, use, patterns, max_d, min_d)

NextModes ==
    \/ \E use \in BOOLEAN, patterns \in ExcludeChoices,
          max_d \in MaxDurationChoices, min_d \in MinDurationChoices :
          FirstScraper(use, patterns, max_d, min_d)
    \/ \E c \in 1..MaxCount, sf \in SampleChoices, use \in BOOLEAN,
          patterns \in ExcludeChoices :
          FirstMainJson(c, sf, use, patterns, None, None)
    \/ \E c \in 1..MaxCount : ScrapeAndDownload(c)
    \/ \E pages \in PageSeqs : SearchAttempt(pages)
    \/ \E outcome \in DownloadOutcomes : DownloadNext(outcome)
    \/ EndAttempt
    \/ Finish
    \/ \E c \in 1..MaxCount : ScrapeRandomVideos(c)
    \/ \E pages \in PageSeqs : RandomSearch(pages)
    \/ \E outcome \in DownloadOutcomes : RandomProcessVideo(outcome)
    \/ RandomEndQuery
    \/ RandomFinish
    \/ HandleJsonOutputMode
    \/ \E pages \in PageSeqs : JsonSearchAttempt(pages)
    \/ JsonFinish

SpecModes == Init /\ [][NextModes]_vars

\* ------------------------------------------- search_videos, called alone
\* search_videos(query, limit) called on a scraper, up to MaxCalls times; the
\* call is logged with the ids it returned, and the globally seen ids of
\* before the call are kept.
SearchVideos(pages, limit) ==
    /\ pc = "ready"
    /\ Len(search_log) < MaxCalls
    /\ LET found == search_videos(pages, limit, use_ignore_list,
                                  current_ignored_video_ids, global_seen_video_ids)
       IN /\ global_seen_video_ids' = found.global_seen_video_ids
          /\ seen_at_attempt_start' = global_seen_video_ids
          /\ search_log' = Append(search_log,
                 [attempt |-> Len(search_log) + 1, limit |-> limit,
                  videos |-> found.videos, downloads_before |-> 0])
          /\ offered' = [seen |-> offered.seen
                                      \/ Range(Flatten(pages)) \cap global_seen_video_ids # {},
                         ignored |-> offered.ignored
                                      \/ Range(Flatten(pages)) \cap current_ignored_video_ids # {}]
    /\ UNCHANGED <<diskVars, configVars, existing_video_ids, runVars, runs, filter_log,
                   download_log, fetched_before, fetched_now, otherVars, dirVars,
                   request_log>>

NextSearch ==
    \/ \E use \in BOOLEAN : NewScraper(use, {}, None, None)
    \/ \E pages \in PageSeqs, limit \in 1..MaxLimit : SearchVideos(pages, limit)

SpecSearch == Init /\ [][NextSearch]_vars

\* ------------------------------------------------- IgnoreListManager
\* (src/add_to_ignore_list.py)  The ids handed to the manager are strings: a
\* string is the sequence of its characters, a blank or a letter.
Chars == {" ", "a"}

RawIds == SeqsUpTo(Chars, MaxIdLen)

RECURSIVE lstrip(_)
lstrip(x) ==
    IF x = <<>> THEN <<>>
    ELSE IF Head(x) = " " THEN lstrip(Tail(x))
    ELSE x

\* str.strip(): the string without its leading and trailing blanks
strip(x) == Reverse(lstrip(Reverse(lstrip(x))))

\* if video_id and str(video_id).strip()
is_usable_id(video_id) == video_id # <<>> /\ strip(video_id) # <<>>

\* for video_id in video_ids: self.ignore_list.add(str(video_id).strip())
RECURSIVE add_each(_, _)
add_each(list, video_ids) ==
    IF video_ids = <<>> THEN list
    ELSE add_each(IF is_usable_id(Head(video_ids))
                  THEN list \cup {strip(Head(video_ids))}
                  ELSE list,
                  Tail(video_ids))

\* for video_id in video_ids: self.ignore_list.discard(str(video_id).strip())
RECURSIVE discard_each(_, _)
discard_each(list, video_ids) ==
    IF video_ids = <<>> THEN list
    ELSE discard_each(IF is_usable_id(Head(video_ids))
                      THEN list \ {strip(Head(video_ids))}
                      ELSE list,
                      Tail(video_ids))

\* The number of ids handed in is returned.
add_video_ids_counting_all(list, video_ids) ==
    [ignore_list |-> add_each(list, video_ids), returned |-> Len(video_ids)]

\* add_video_ids: the ids are added and the growth of the set is returned.
add_video_ids(list, video_ids) ==
    LET after == add_each(list, video_ids)
    IN [ignore_list |-> after, returned |-> Cardinality(after) - Cardinality(list)]

\* remove_video_ids: the ids are discarded and the shrinkage is returned.
remove_video_ids(list, video_ids) ==
    LET after == discard_each(list, video_ids)
    IN [ignore_list |-> after, returned |-> Cardinality(list) - Cardinality(after)]

\* return str(video_id).strip() in self.ignore_list
is_ignored(list, video_id) == strip(video_id) \in list

AddVideoIds(video_ids) ==
    /\ LET r == add_video_ids(ignore_list, video_ids)
       IN /\ ignore_list' = r.ignore_list
          /\ manager_call' = [op |-> "add_video_ids", video_ids |-> video_ids,
                              returned |-> r.returned, answer |-> FALSE,
                              before |-> ignore_list]
    /\ UNCHANGED <<diskVars, scraperVars, runVars, histVars, budgetCheckVars,
                   jsonVars, randomVars, rankVars, dirVars, request_log>>

RemoveVideoIds(video_ids) ==
    /\ LET r == remove_video_ids(ignore_list, video_ids)
       IN /\ ignore_list' = r.ignore_list
          /\ manager_call' = [op |-> "remove_video_ids", video_ids |-> video_ids,
                              returned |-> r.returned, answer |-> FALSE,
                              before |-> ignore_list]
    /\ UNCHANGED <<diskVars, scraperVars, runVars, histVars, budgetCheckVars,
                   jsonVars, randomVars, rankVars, dirVars, request_log>>

IsIgnored(video_id) ==
    /\ manager_call' = [op |-> "is_ignored", video_ids |-> <<video_id>>,
                        returned |-> 0, answer |-> is_ignored(ignore_list, video_id),
                        before |-> ignore_list]
    /\ UNCHANGED <<ignore_list, diskVars, scraperVars, runVars, histVars,
                   budgetCheckVars, jsonVars, randomVars, rankVars, dirVars,
                   request_log>>

NextIgnore ==
    \/ \E video_ids \in SeqsUpTo(RawIds, MaxIdsPerCall) : AddVideoIds(video_ids)
    \/ \E video_ids \in SeqsUpTo(RawIds, MaxIdsPerCall) : RemoveVideoIds(video_ids)
    \/ \E video_id \in RawIds : IsIgnored(video_id)

SpecIgnore == Init /\ [][NextIgnore]_vars

\* ------------------------------------------- VideoFilter.filter_videos
\* (src/video_filter.py; src/video_filter_m4.py has the same code.)  A video
\* file is what OpenCV and CLIP make of it: whether it opens, its frame
\* count, how many of the sampled frames can be read, and the cosine
\* similarity in hundredths that the mean embedding of its frames has with
\* the query text.
Similarities == {0 - 50, 0, 20, 50, 90}

VideoFiles ==
    {[opened |-> FALSE, total_frames |-> 0, frames_read |-> 0, cosine |-> 0],
     [opened |-> TRUE, total_frames |-> 0, frames_read |-> 0, cosine |-> 0],
     [opened |-> TRUE, total_frames |-> 1, frames_read |-> 0, cosine |-> 0]}
    \cup {[opened |-> TRUE, total_frames |-> 1, frames_read |-> 1, cosine |-> c] :
             c \in Similarities}

\* The number of frames extract_video_frames returns.
extract_video_frames(video) ==
    IF ~video.opened THEN 0
    ELSE IF video.total_frames = 0 THEN 0
    ELSE video.frames_read

\* np.zeros(512) for a video without frames, else the mean of the frame
\* embeddings, known here by its cosine with the query.
encode_video(video) ==
    IF extract_video_frames(video) = 0
    THEN [zero |-> TRUE, cosine |-> 0]
    ELSE [zero |-> FALSE, cosine |-> video.cosine]

\* cosine_similarity of the video embedding and the text embedding; for the
\* zero vector it is 0.
calculate_similarity(video_embedding) ==
    IF video_embedding.zero THEN 0 ELSE video_embedding.cosine

\* Videos that score 0 are left out of the list.
append_result_skipping_zero(results, file, similarity) ==
    IF similarity = 0 THEN results
    ELSE Append(results, [file |-> file, similarity |-> similarity])

\* video_results.append((video_file, similarity))
append_result(results, file, similarity) ==
    Append(results, [file |-> file, similarity |-> similarity])

\* An entry put into a list sorted by ascending similarity.
insert_ascending(sorted, entry) ==
    LET before == SelectSeq(sorted, LAMBDA e : e.similarity <= entry.similarity)
        after == SelectSeq(sorted, LAMBDA e : e.similarity > entry.similarity)
    IN before \o <<entry>> \o after

\* An entry put before the entries of the same similarity.
insert_descending_before_equal(sorted, entry) ==
    LET before == SelectSeq(sorted, LAMBDA e : e.similarity > entry.similarity)
        after == SelectSeq(sorted, LAMBDA e : e.similarity <= entry.similarity)
    IN before \o <<entry>> \o after

\* An entry put into a list sorted by descending similarity, after the
\* entries of the same similarity.
insert_descending(sorted, entry) ==
    LET before == SelectSeq(sorted, LAMBDA e : e.similarity >= entry.similarity)
        after == SelectSeq(sorted, LAMBDA e : e.similarity < entry.similarity)
    IN before \o <<entry>> \o after

RECURSIVE sort_by_similarity(_, _)
\* video_results.sort(key=lambda x: x[1], reverse=True): a stable sort,
\* entries of equal similarity keep their order.
sort_by_similarity(results, sorted) ==
    IF results = <<>> THEN sorted
    ELSE sort_by_similarity(Tail(results), insert_descending(sorted, Head(results)))

\* One entry too few.
top_results_short(results, k) == Take(results, k - 1)

\* video_results[:top_k] for top_k >= 0
top_results(results, k) == Take(results, k)

\* filter_videos(source_dir, query, k) is called on a directory of videos.
FilterVideos(fs, k) ==
    /\ filter_pc = "off"
    /\ video_files' = fs
    /\ top_k' = k
    /\ next_file' = 1
    /\ video_results' = <<>>
    /\ filter_pc' = "scoring"
    /\ UNCHANGED <<sorted_results, filtered_videos>>
    /\ UNCHANGED <<diskVars, scraperVars, runVars, histVars, budgetCheckVars, managerVars,
                   jsonVars, search_queries>>
    /\ UNCHANGED <<dirVars, request_log>>

\* for video_file in video_files: encode, score, append
ScoreVideo ==
    /\ filter_pc = "scoring"
    /\ next_file <= Len(video_files)
    /\ video_results' = append_result(video_results, next_file,
                            calculate_similarity(encode_video(video_files[next_file])))
    /\ next_file' = next_file + 1
    /\ UNCHANGED <<video_files, top_k, sorted_results, filtered_videos, filter_pc>>
    /\ UNCHANGED <<diskVars, scraperVars, runVars, histVars, budgetCheckVars, managerVars,
                   jsonVars, search_queries>>
    /\ UNCHANGED <<dirVars, request_log>>

\* The sort and the cut that end filter_videos.
SortAndReturn ==
    /\ filter_pc = "scoring"
    /\ next_file > Len(video_files)
    /\ sorted_results' = sort_by_similarity(video_results, <<>>)
    /\ filtered_videos' = top_results(sorted_results', top_k)
    /\ filter_pc' = "returned"
    /\ UNCHANGED <<video_files, top_k, next_file, video_results>>
    /\ UNCHANGED <<diskVars, scraperVars, runVars, histVars, budgetCheckVars, managerVars,
                   jsonVars, search_queries>>
    /\ UNCHANGED <<dirVars, request_log>>

NextFilter ==
    \/ \E fs \in SeqsUpTo(VideoFiles, MaxVideos), k \in 0..MaxTopK : FilterVideos(fs, k)
    \/ ScoreVideo
    \/ SortAndReturn

SpecFilter == Init /\ [][NextFilter]_vars

\* ------------------------------------------------- the budget, run alone
\* The budget computation of scrape_and_download for two ignore lists of
\* sizes n <= m, the ignore list enabled: neighbouring sizes, and 0 against 500.
SizePairs ==
    {<<n, n + 1>> : n \in 0..(MaxIgnoreSize - 1)} \cup {<<0, 500>>}

max_search_attempts_for(size) ==
    max_search_attempts_of(ignore_list_size_of(TRUE, 1..size))

InitBudget ==
    /\ RunInit
    /\ ModeInit
    /\ ignore_sizes \in SizePairs
    /\ budgets = NotComputed
    /\ excluded_sizes = <<0, 0>>
    /\ mode_budgets = NotComputed

ComputeBudget ==
    /\ budgets = NotComputed
    /\ budgets' = <<max_search_attempts_for(ignore_sizes[1]),
                    max_search_attempts_for(ignore_sizes[2])>>
    /\ UNCHANGED <<ignore_sizes, excluded_sizes, mode_budgets, diskVars, scraperVars,
                   runVars, histVars, jsonVars, randomVars, rankVars>>
    /\ UNCHANGED <<managerVars, dirVars, request_log>>

NextBudget == ComputeBudget

SpecBudget == InitBudget /\ [][NextBudget]_vars

\* -------------------------------------- the budgets of the two modes
\* The budget computations of scrape_and_download and of
\* _handle_json_output_mode for an ignore list of a given size (the ignore
\* list enabled) and a given number of ids in the query's JSON file.
ExcludedSizes == (0..MaxIgnoreSize) \X (0..MaxJsonIds)

InitModeBudgets ==
    /\ RunInit
    /\ ModeInit
    /\ ignore_sizes = <<0, 0>>
    /\ budgets = NotComputed
    /\ excluded_sizes \in ExcludedSizes
    /\ mode_budgets = NotComputed

ComputeModeBudgets ==
    /\ mode_budgets = NotComputed
    /\ LET n == ignore_list_size_of(TRUE, 1..excluded_sizes[1])
           in_json == 1..excluded_sizes[2]
       IN mode_budgets' = <<max_search_attempts_of(n),
                            json_max_search_attempts_of(
                                total_excluded_count_of(n, in_json))>>
    /\ UNCHANGED <<ignore_sizes, budgets, excluded_sizes, diskVars, scraperVars,
                   runVars, histVars, jsonVars, randomVars, rankVars>>
    /\ UNCHANGED <<managerVars, dirVars, request_log>>

NextModeBudgets == ComputeModeBudgets

SpecModeBudgets == InitModeBudgets /\ [][NextModeBudgets]_vars

TypeOK ==
    /\ pc \in {"off", "ready", "loop", "download", "finish", "done"}
    /\ successful_downloads \in 0..MaxCount
    /\ global_seen_video_ids \subseteq Ids
    /\ existing_video_ids \subseteq Ids

\* ------------------------------------------------------------ the claims
InRun == pc \in {"loop", "download", "finish", "done"}

IdsOf(log) == [i \in 1..Len(log) |-> log[i].id]

Succeeded(entry) == entry.success

\* The ids of the videos counted as successfully downloaded, in order.
AcceptedIds == IdsOf(SelectSeq(download_log, Succeeded))

\* Every search_videos call of the run so far returned an empty list.
AllSearchesEmpty == \A i \in 1..Len(search_log) : search_log[i].videos = <<>>

\* C1 (P1, no duplicate acceptance): the ids counted as successfully
\* downloaded in a run are pairwise distinct, none is in the scraper's ignore
\* list and none was among the existing ids loaded at the start of the run.
C1_NoDuplicateAcceptance ==
    /\ NoRepeats(AcceptedIds)
    /\ \A id \in Range(AcceptedIds) :
          /\ id \notin current_ignored_video_ids
          /\ id \notin existing_ids_at_start

\* A run that ended with a download although the site served an existing id
\* and an ignored id.
C1_Witness ==
    /\ pc = "done"
    /\ AcceptedIds # <<>>
    /\ existing_ids_at_start # {}
    /\ current_ignored_video_ids # {}
    /\ offered.seen
    /\ offered.ignored

\* C2 (P2, monotonic session-seen): no id is passed to should_filter_video
\* twice or to download_video twice in a run, and no id passed to either was
\* already recorded as seen (global_seen_video_ids, all_processed_video_ids)
\* when the search call that returned it began.
C2_SeenNeverProcessedAgain ==
    /\ NoRepeats(IdsOf(filter_log))
    /\ NoRepeats(IdsOf(download_log))
    /\ \A i \in 1..Len(filter_log) : ~filter_log[i].seen_before
    /\ \A i \in 1..Len(download_log) : ~download_log[i].seen_before

\* A run without existing ids in which a later search was served an id seen
\* earlier in the run, after a filtered video and a failed download.
C2_Witness ==
    /\ pc = "done"
    /\ existing_ids_at_start = {}
    /\ offered.seen
    /\ Len(search_log) >= 2
    /\ \E i \in 1..Len(filter_log) : filter_log[i].filtered
    /\ \E i \in 1..Len(download_log) : ~download_log[i].success
    /\ \E i \in 1..Len(download_log) : download_log[i].success

\* C3: the search loop of a run that needs videos has stopped only with
\* successful_downloads = needed_count or search_attempts = max_search_attempts
\* (an empty search result does not end it).
C3_StopsOnlyAtTargetOrBudget ==
    (pc \in {"finish", "done"} /\ needed_count > 0)
        => (successful_downloads = needed_count \/ search_attempts = max_search_attempts)

\* C4 (P3, graceful scarcity): while every search of a run that needs videos
\* has come back empty, at most max_search_attempts searches were made,
\* nothing was downloaded, the loop has ended once a search was made, the
\* run can always take its next step, and it returns existing_count.
C4_GracefulScarcity ==
    (InRun /\ needed_count > 0 /\ AllSearchesEmpty)
        => /\ Len(search_log) <= max_search_attempts
           /\ successful_downloads = 0
           /\ download_log = <<>>
           /\ (search_log # <<>> => pc \in {"finish", "done"})
           /\ (pc # "done" => ENABLED Next)
           /\ (pc = "done" => result = existing_count)

\* A finished run that needed videos, had videos before, and searched in vain.
C4_Witness ==
    /\ pc = "done"
    /\ needed_count > 0
    /\ existing_count > 0
    /\ search_log # <<>>
    /\ AllSearchesEmpty
    /\ result = existing_count

\* C5 (P4, budget scaling): of two ignore-list sizes n <= m the larger has
\* at least the budget of the smaller, and 500 ids have a budget strictly
\* above that of the empty list.
C5_BudgetScaling ==
    budgets # NotComputed
        => /\ budgets[1] <= budgets[2]
           /\ (ignore_sizes = <<0, 500>> => budgets[2] > budgets[1])

\* The budgets of the empty list and of a list of 500 ids, computed.
C5_Witness ==
    /\ ignore_sizes = <<0, 500>>
    /\ budgets # NotComputed

\* C6: the successful downloads never exceed needed_count, every
\* download_video and search_videos call was made with fewer than needed_count
\* successes, and a run with existing_count >= count makes neither call.
C6_NeverMoreThanNeeded ==
    /\ successful_downloads <= needed_count
    /\ \A i \in 1..Len(download_log) : download_log[i].downloads_before < needed_count
    /\ \A i \in 1..Len(search_log) : search_log[i].downloads_before < needed_count
    /\ (InRun /\ existing_count >= count) => (search_log = <<>> /\ download_log = <<>>)

\* The target is reached with candidates left over in the download loop.
C6_Witness ==
    /\ pc = "download"
    /\ successful_downloads = needed_count
    /\ candidate_videos # <<>>

\* C7: the ids passed to download_video form a subsequence of the
\* concatenation of the lists search_videos returned, in call order.
C7_FirstEncounterOrder ==
    IsSubseq(IdsOf(download_log),
             Flatten([i \in 1..Len(search_log) |-> search_log[i].videos]))

\* Overlapping results with three videos needed and every download
\* succeeding: [1, 2] then a page with 2 again and 3; accepted 1, 2, 3.
C7_Witness ==
    /\ pc = "done"
    /\ needed_count = 3
    /\ existing_ids_at_start = {}
    /\ current_ignored_video_ids = {}
    /\ offered.seen
    /\ Len(search_log) = 2
    /\ search_log[1].videos = <<1, 2>>
    /\ search_log[2].videos = <<3>>
    /\ AcceptedIds = <<1, 2, 3>>

\* C8 (scenario C): every video should_filter_video rejected is in the
\* filtered total exactly once and is never a candidate for download_video.
C8_FilteredNeverDownloaded ==
    /\ NoRepeats(IdsOf(filter_log))
    /\ total_filtered_count
          = Cardinality({filter_log[i].id : i \in {j \in 1..Len(filter_log) :
                                                      filter_log[j].filtered}})
    /\ \A i \in 1..Len(filter_log) :
          (Filtered(filter_log[i].id) \/ filter_log[i].filtered)
              => /\ filter_log[i].filtered
                 /\ filter_log[i].id \notin Range(IdsOf(download_log))
                 /\ filter_log[i].id \notin Range(candidate_videos)

\* A finished run with a title pattern set that filtered a video and
\* downloaded another.
C8_Witness ==
    /\ pc = "done"
    /\ exclude_title_patterns # {}
    /\ total_filtered_count >= 1
    /\ \E i \in 1..Len(filter_log) :
          filter_log[i].filtered /\ TitleOf(filter_log[i].id) \in exclude_title_patterns
    /\ AcceptedIds # <<>>

\* C9: after a download_video call that returned False the accepted count is
\* what it was before the call, the id is not passed to download_video again,
\* and as long as no later search was made the run is still in its loops
\* (unless the attempts are used up).
C9_FailedDownloadNotFatal ==
    /\ \A i \in 1..Len(download_log) :
          ~download_log[i].success
              => /\ (IF i < Len(download_log)
                     THEN download_log[i + 1].downloads_before
                     ELSE successful_downloads) = download_log[i].downloads_before
                 /\ \A j \in (i + 1)..Len(download_log) :
                       download_log[j].id # download_log[i].id
    /\ (/\ download_log # <<>>
        /\ ~download_log[Len(download_log)].success
        /\ download_log[Len(download_log)].attempt = search_attempts)
           => (pc \in {"download", "loop"} \/ search_attempts >= max_search_attempts)

\* A failed download followed by a successful one in the same attempt and
\* by a download in a later attempt.
C9_Witness ==
    \E i, j, k \in 1..Len(download_log) :
        /\ i < j /\ j < k
        /\ ~download_log[i].success
        /\ download_log[j].success
        /\ download_log[j].attempt = download_log[i].attempt
        /\ download_log[k].attempt > download_log[i].attempt

\* C10: no id is fetched into the query directory by more than one run.
C10_NoIdDownloadedByTwoRuns == fetched_before \cap fetched_now = {}

\* C11: across the JSON-mode runs for one query and output directory no
\* video id is in the JSON output of more than one run.
C11_NoIdInTwoJsonOutputs ==
    \A i, j \in 1..Len(json_history) :
        i < j => Range(json_history[i]) \cap Range(json_history[j]) = {}

\* C12 (P5, sampling correctness): a JSON run with sample_from > count whose
\* pool reached sample_from candidates puts out exactly count videos, each
\* one of the pool, none twice.
C12_SamplingCorrectness ==
    (/\ pc = "done"
     /\ json_output
     /\ sample_from # None
     /\ sample_from > count
     /\ Len(all_candidate_videos) >= sample_from)
        => /\ Len(videos_to_process) = count
           /\ NoRepeats(videos_to_process)
           /\ Range(videos_to_process) \subseteq Range(all_candidate_videos)
           /\ json_file = videos_to_process

\* Two videos sampled from a pool of three, and not the first two in order.
C12_Witness ==
    /\ pc = "done"
    /\ json_output
    /\ sample_from = 3
    /\ count = 2
    /\ Len(all_candidate_videos) = 3
    /\ Len(videos_to_process) = 2
    /\ videos_to_process # Take(all_candidate_videos, 2)

Unrankable(video) ==
    ~video.opened \/ video.total_frames = 0 \/ video.frames_read = 0

Returned == filter_pc = "returned"

\* C14 (P6, ranking determinism): filter_videos returns the (file, score)
\* pairs by descending score, pairs of equal score in their enumeration
\* order; scores 0.2, 0.9, 0.5 with top_k = 2 give the 0.9 then the 0.5 video.
C14_RankingDeterminism ==
    Returned
        => /\ \A i, j \in 1..Len(filtered_videos) :
                 i < j => \/ filtered_videos[i].similarity > filtered_videos[j].similarity
                          \/ /\ filtered_videos[i].similarity = filtered_videos[j].similarity
                             /\ filtered_videos[i].file < filtered_videos[j].file
           /\ \A i \in 1..Len(filtered_videos) :
                 LET video == video_files[filtered_videos[i].file]
                 IN filtered_videos[i].similarity
                        = (IF Unrankable(video) THEN 0 ELSE video.cosine)
           /\ ([i \in 1..Len(video_files) |-> video_results[i].similarity] = <<20, 90, 50>>
               /\ top_k = 2)
                  => filtered_videos = <<[file |-> 2, similarity |-> 90],
                                         [file |-> 3, similarity |-> 50]>>

\* The example of the claim, returned.
C14_Witness ==
    /\ Returned
    /\ top_k = 2
    /\ Len(video_results) = 3
    /\ video_results[1].similarity = 20
    /\ video_results[2].similarity = 90
    /\ video_results[3].similarity = 50
    /\ filtered_videos = <<[file |-> 2, similarity |-> 90],
                           [file |-> 3, similarity |-> 50]>>

\* C15: filter_videos returns min(top_k, n) entries of n scored videos for
\* top_k >= 0, no file twice, none scored below a file left out, and all n
\* when top_k exceeds n.
C15_TopKCount ==
    Returned
        => LET n == Len(video_files)
               chosen == {filtered_videos[i].file : i \in 1..Len(filtered_videos)}
           IN /\ Len(filtered_videos) = Min(top_k, n)
              /\ Cardinality(chosen) = Len(filtered_videos)
              /\ chosen \subseteq 1..n
              /\ \A i \in 1..Len(filtered_videos) :
                    \A r \in (1..n) \ chosen :
                        video_results[r].similarity <= filtered_videos[i].similarity
              /\ top_k > n => chosen = 1..n

\* Three videos, four asked for, three returned.
C15_Witness ==
    /\ Returned
    /\ Len(video_files) = 3
    /\ top_k = 4
    /\ Len(filtered_videos) = 3

\* C16 (P7, unrankable video): a video that cannot be opened, has no frames
\* or gives no readable frame gets the zero embedding and the similarity 0,
\* is entered in the list that is sorted, and filter_videos goes on.
C16_UnrankableScoredZero ==
    /\ \A i \in 1..Len(video_files) :
          Unrankable(video_files[i])
              => /\ encode_video(video_files[i]).zero
                 /\ i < next_file
                       => /\ Len(video_results) >= i
                          /\ video_results[i] = [file |-> i, similarity |-> 0]
                 /\ Returned
                       => \E r \in 1..Len(sorted_results) :
                             sorted_results[r] = [file |-> i, similarity |-> 0]
    /\ filter_pc = "scoring" => ENABLED NextFilter

\* The three kinds of unrankable video in one directory, all in the sorted
\* list.
C16_Witness ==
    /\ Returned
    /\ Len(video_files) = 3
    /\ ~video_files[1].opened
    /\ video_files[2].opened /\ video_files[2].total_frames = 0
    /\ video_files[3].total_frames = 1 /\ video_files[3].frames_read = 0
    /\ Len(sorted_results) = 3

\* C17 as stated: in the sorted ranking no decodable video comes after an
\* unrankable one.
C17_UnrankableRankedLast ==
    Returned
        => \A i, j \in 1..Len(sorted_results) :
              (i < j /\ Unrankable(video_files[sorted_results[i].file]))
                  => Unrankable(video_files[sorted_results[j].file])

\* C17 amended: in the sorted ranking no decodable video with a positive
\* score comes after an unrankable one.
C17_UnrankableAfterPositive ==
    Returned
        => \A i, j \in 1..Len(sorted_results) :
              (i < j /\ Unrankable(video_files[sorted_results[i].file]))
                  => sorted_results[j].similarity <= 0

\* An unrankable video enumerated first, ranked after a video of positive
\* score and before one of negative score.
C17_Witness ==
    /\ Returned
    /\ Len(sorted_results) = 3
    /\ Unrankable(video_files[1])
    /\ sorted_results[1].similarity > 0
    /\ sorted_results[2].file = 1
    /\ sorted_results[3].similarity < 0

\* The videos the category searches of the run returned that
\* should_filter_video does not reject.
EligibleReturned ==
    SelectSeq(Flatten([i \in 1..Len(search_log) |-> search_log[i].videos]), NotFiltered)

\* C18: a random-mode run that needs videos, whose category searches
\* returned at least needed_count videos that are new, not ignored and not
\* filtered, and in which no download failed, downloads needed_count videos.
C18_RandomModeDownloads ==
    (/\ pc = "done"
     /\ needed_count > 0
     /\ Len(EligibleReturned) >= needed_count
     /\ \A i \in 1..Len(download_log) : download_log[i].success)
        => successful_downloads = needed_count

\* A pass of the search loop that got videos and ended without candidates.
NoCandidatesStep ==
    /\ pc = "loop"
    /\ pc' = "loop"
    /\ search_attempts' = search_attempts + 1

\* The same, new videos having been found and all of them filtered out.
AllFilteredStep ==
    /\ NoCandidatesStep
    /\ Len(filter_log') > Len(filter_log)

\* The end of a pass that had candidates and downloaded none of them.
NoDownloadsStep ==
    /\ pc = "download"
    /\ pc' = "loop"
    /\ attempt_downloads = 0

\* C19 as stated: a pass without candidates doubles videos_per_attempt, a
\* pass with candidates and no successful download multiplies it by 1.5.
C19_BreadthGrowthRule ==
    [][/\ NoCandidatesStep => videos_per_attempt' = videos_per_attempt * 2
       /\ NoDownloadsStep => videos_per_attempt' = (videos_per_attempt * 3) \div 2]_vars

\* C19 amended: a pass whose new videos were all filtered out leaves
\* videos_per_attempt as it is, and a pass with candidates and no successful
\* download doubles it.
C19_BreadthGrowthAsCoded ==
    [][/\ AllFilteredStep => videos_per_attempt' = videos_per_attempt
       /\ NoDownloadsStep => videos_per_attempt' = videos_per_attempt * 2]_vars

\* A first pass in which every new video was filtered out and a second in
\* which the one download failed: the breadth is twice what it began with.
C19_Witness ==
    /\ pc = "loop"
    /\ search_attempts = 2
    /\ filter_log # <<>>
    /\ search_log[1].videos # <<>>
    /\ \A i \in 1..Len(filter_log) :
          filter_log[i].filtered <=> filter_log[i].id \in Range(search_log[1].videos)
    /\ Len(download_log) = 1
    /\ ~download_log[1].success
    /\ download_log[1].attempt = 2
    /\ videos_per_attempt
          = 2 * ((needed_count * videos_per_attempt_multiplier) \div 1000)

\* s in thousandths: 1 for nothing excluded, else
\* max(1.5, 1 + 2 * min(n / 1000, cap)), the cap in thousandths
ScaleOf(n, cap) == IF n = 0 THEN 1000 ELSE Max(1500, 1000 + (2 * Min(n, cap)))

\* C20 as stated: with s = 1 for an empty ignore list and
\* s = max(1.5, 1 + 2 * min(len(ignoreIds) / 1000, 0.7)) otherwise, the
\* attempts are floor(20 * s) in download mode and floor(5 * s) in JSON mode.
C20_BudgetFormula ==
    mode_budgets # NotComputed
        => /\ mode_budgets[1] = (20 * ScaleOf(excluded_sizes[1], 700)) \div 1000
           /\ mode_budgets[2] = (5 * ScaleOf(excluded_sizes[1], 700)) \div 1000

\* C20 amended: download mode as stated; in JSON mode s is 1 when nothing
\* is excluded and max(1.5, 1 + 2 * min(t / 1000, 0.6)) otherwise, t being
\* the ignore-list size plus the number of ids in the existing JSON file.
C20_BudgetFormulaAsCoded ==
    mode_budgets # NotComputed
        => /\ mode_budgets[1] = (20 * ScaleOf(excluded_sizes[1], 700)) \div 1000
           /\ mode_budgets[2]
                 = (5 * ScaleOf(excluded_sizes[1] + excluded_sizes[2], 600)) \div 1000

\* 700 ignored ids and one id in the JSON file: 48 attempts in download
\* mode, 11 in JSON mode.
C20_Witness ==
    /\ excluded_sizes = <<700, 1>>
    /\ mode_budgets = <<48, 11>>

\* A JSON-mode run has written its list.
JsonRunDone == pc = "done" /\ json_output

\* C21: the list written by a JSON-mode run has at most count entries, its
\* ids are pairwise distinct, none is in the ignore list, none is among
\* the ids of the JSON file that existed at the start of the run, and none
\* is of a video that should_filter_video rejects.
C21_JsonListSafety ==
    JsonRunDone
        => /\ Len(json_file) <= count
           /\ NoRepeats(json_file)
           /\ Range(json_file) \cap current_ignored_video_ids = {}
           /\ Range(json_file) \cap existing_video_ids_in_json = {}
           /\ \A id \in Range(json_file) : ~Filtered(id)

\* A run with an ignored id, an id in the earlier JSON file and a filtered
\* video has written a list.
C21_Witness ==
    /\ JsonRunDone
    /\ json_file # <<>>
    /\ current_ignored_video_ids # {}
    /\ existing_video_ids_in_json # {}
    /\ total_filtered_count > 0

\* C22: the ignore list is what the constructor loaded (the ids of the
\* ignore list file when the ignore list is enabled, else nothing), and no
\* step of a run in download mode, JSON mode or random mode (a search, a
\* download_video call, the mode functions) adds to it or removes from it.
C22_IgnoreListReadOnly ==
    [][/\ runs' = runs => current_ignored_video_ids' = current_ignored_video_ids
       /\ (runs' # runs /\ pc' = "ready")
            => current_ignored_video_ids'
                 = (IF use_ignore_list' THEN ignore_list_file ELSE {})]_vars

\* A download run with a loaded ignore list was served an ignored id and
\* has downloaded a video.
C22_Witness ==
    /\ pc = "done"
    /\ current_ignored_video_ids # {}
    /\ offered.ignored
    /\ AcceptedIds # <<>>

\* C23: during a run existing_video_ids changes only by gaining the id of a
\* video whose download_video call returned success: a call that returns
\* False leaves the set as it was, after a call that returns True the set is
\* the old one with that id, no other step of the run changes the set, and
\* no id is ever removed.
C23_ExistingIdsGrowOnSuccess ==
    [][/\ Len(download_log') = Len(download_log) + 1
            => LET call == download_log'[Len(download_log')]
               IN IF call.success
                  THEN existing_video_ids' = existing_video_ids \cup {call.id}
                  ELSE existing_video_ids' = existing_video_ids
       /\ (download_log' = download_log /\ pc \in {"loop", "download", "finish"})
            => existing_video_ids' = existing_video_ids
       /\ runs' = runs => existing_video_ids \subseteq existing_video_ids']_vars

\* A run that began with an existing id has seen download_video fail and
\* succeed.
C23_Witness ==
    /\ existing_ids_at_start # {}
    /\ \E i, j \in 1..Len(download_log) :
          /\ download_log[i].success
          /\ ~download_log[j].success
    /\ existing_ids_at_start \subseteq existing_video_ids
    /\ existing_video_ids # existing_ids_at_start

\* C24: the video_file_mappings stored in query_metadata.json after a
\* download-mode run, a run that finds enough existing videos and downloads
\* nothing included, hold every mapping stored before the run.
C24_MappingsPreserved ==
    pc = "done"
        => \A id \in DOMAIN existing_video_mappings :
              /\ id \in DOMAIN video_file_mappings
              /\ video_file_mappings[id] = existing_video_mappings[id]

\* C25: when scrape_and_download has returned, by normal completion or
\* because enough videos exist already, self.download_dir is what it was
\* before the call.
C25_DownloadDirRestored ==
    pc = "done" => download_dir = original_download_dir

\* C26 (rate limit ordering): in a download-mode run a sleep of self.delay
\* comes between any two consecutive search-page fetches, between any two
\* consecutive download_video calls, and between a download_video call and
\* the next search-page fetch: no request follows another one directly.
C26_RateLimitOrdering ==
    \A i \in 1..(Len(request_log) - 1) :
        request_log[i] # "sleep" => request_log[i + 1] = "sleep"

\* A run fetched two pages in a row, called download_video twice in a row,
\* and fetched a page after a download_video call.
C26_Witness ==
    /\ \E i \in 1..(Len(request_log) - 2) :
          request_log[i] = "search_page" /\ request_log[i + 2] = "search_page"
    /\ \E i \in 1..(Len(request_log) - 2) :
          request_log[i] = "download_video" /\ request_log[i + 2] = "download_video"
    /\ \E i \in 1..(Len(request_log) - 2), j \in 1..Len(request_log) :
          /\ request_log[i] = "download_video"
          /\ i < j
          /\ request_log[j] = "search_page"
          /\ \A k \in (i + 1)..(j - 1) : request_log[k] = "sleep"

\* A string of blanks only, the empty string included.
Blank(x) == \A i \in 1..Len(x) : x[i] = " "

\* The ids a call names: its non-blank arguments, stripped.
NamedIds(video_ids) == {strip(x) : x \in {y \in Range(video_ids) : ~Blank(y)}}

\* C27: add_video_ids returns the number of ids it names (blank ones
\* skipped, the others stripped) that were not in the list before, and the
\* list gains exactly these; adding the same ids again returns 0 and leaves
\* the list as it is; remove_video_ids returns the number of ids that were
\* in the list and are now gone; is_ignored(x) is true right after
\* add_video_ids([x]) for a non-blank x and false right after
\* remove_video_ids([x]).
C27_IgnoreCountsExact ==
    /\ [](/\ manager_call.op = "add_video_ids"
             => /\ manager_call.returned
                      = Cardinality(NamedIds(manager_call.video_ids) \ manager_call.before)
                /\ ignore_list = manager_call.before \cup NamedIds(manager_call.video_ids)
          /\ manager_call.op = "remove_video_ids"
             => /\ manager_call.returned
                      = Cardinality(NamedIds(manager_call.video_ids) \cap manager_call.before)
                /\ ignore_list = manager_call.before \ NamedIds(manager_call.video_ids))
    /\ [][/\ (/\ manager_call.op = "add_video_ids"
              /\ manager_call'.op = "add_video_ids"
              /\ manager_call'.video_ids = manager_call.video_ids)
                => (manager_call'.returned = 0 /\ ignore_list' = ignore_list)
          /\ (/\ manager_call'.op = "is_ignored"
              /\ manager_call.video_ids = manager_call'.video_ids
              /\ ~Blank(manager_call'.video_ids[1]))
                => /\ manager_call.op = "add_video_ids" => manager_call'.answer
                   /\ manager_call.op = "remove_video_ids" => ~manager_call'.answer]_vars

\* An add_video_ids call on a list that held an id was handed two strings,
\* one of them padded with a blank, and returned 1.
C27_Witness ==
    /\ manager_call.op = "add_video_ids"
    /\ manager_call.before # {}
    /\ Len(manager_call.video_ids) = 2
    /\ \E i \in 1..2 : /\ ~Blank(manager_call.video_ids[i])
                       /\ strip(manager_call.video_ids[i]) # manager_call.video_ids[i]
    /\ manager_call.returned = 1

\* The last search_videos call of the scraper.
LastSearch == search_log[Len(search_log)]

\* C28: a list returned by search_videos(query, limit) has at most limit
\* items, their ids are pairwise distinct and not blank, none is in the
\* ignore list, none was in global_seen_video_ids before the call and all
\* are in it after the call; global_seen_video_ids never loses an id.
C28_SearchResultSafety ==
    /\ [](search_log # <<>>
            => /\ Len(LastSearch.videos) <= LastSearch.limit
               /\ NoRepeats(LastSearch.videos)
               /\ 0 \notin Range(LastSearch.videos)
               /\ Range(LastSearch.videos) \cap current_ignored_video_ids = {}
               /\ Range(LastSearch.videos) \cap seen_at_attempt_start = {}
               /\ Range(LastSearch.videos) \subseteq global_seen_video_ids)
    /\ [][runs' = runs => global_seen_video_ids \subseteq global_seen_video_ids']_vars

\* A second call on a scraper with a loaded ignore list, served an ignored
\* id and an id seen before, returned a video as the first call did.
C28_Witness ==
    /\ Len(search_log) = 2
    /\ search_log[1].videos # <<>>
    /\ search_log[2].videos # <<>>
    /\ offered.seen
    /\ offered.ignored

\* C29: every id that a search_videos call adds to global_seen_video_ids
\* is the id of a video in the list the call returns.
C29_SeenOnlyIfReturned ==
    [][Len(search_log') = Len(search_log) + 1
         => (global_seen_video_ids' \ global_seen_video_ids)
                \subseteq Range(search_log'[Len(search_log')].videos)]_vars

\* C30: in download mode, after an attempt that produced no successful
\* download and did not end the run, the limit passed to the next
\* search_videos call is strictly greater than the limit of that attempt.
C30_SearchEffortGrows ==
    InRun
        => \A i \in 1..(Len(search_log) - 1) :
              search_log[i + 1].downloads_before = search_log[i].downloads_before
                  => search_log[i + 1].limit > search_log[i].limit

====
